---- MODULE Spec2Model ----
(***************************************************************************)
(* Label3dCanvas (the 3D label viewer component) and the Session singleton *)
(* of scalabel, as a state machine.                                        *)
(*                                                                         *)
(* One action per handler of the component: the store listener             *)
(* (updateState followed by redraw), the canvas ref callback               *)
(* (initializeRefs), the four pointer handlers, the two document key       *)
(* handlers, mount and unmount, plus Session.updateStatus,                 *)
(* Session.onKeyDown, Session.onKeyUp and the assignment of                *)
(* Session.activeViewerId.  Every handler runs to completion; `trace'      *)
(* holds, in call order, the calls the last handler made on its            *)
(* collaborators (delegate, renderer, registry, DOM event) and what the    *)
(* delegate returned.                                                      *)
(***************************************************************************)
EXTENDS Integers, Sequences, FiniteSets, TLC

----------------------------------------------------------------------------
(* Domains *)

ViewerIds == {0, 1}
NoViewer == -1
SensorIds == {0, 1}
LabelIds == {0, 1}
Keys == {"a", "b"}
\* the hit-testable objects the registry may hold
ShapeIds == {0, 1, 2}
\* distances along the ray, between the raycaster's near (1.0) and far
\* (100.0) planes
Distances == {2, 5, 8}

\* ConnectionStatus enum
ConnectionStatus == {"SAVED", "SAVING", "RECONNECTING", "UNSAVED"}

\* the Session has received no event of the key
NoKeyEvent == [event |-> "none", status |-> "UNSAVED", heeded |-> "none"]

\* ViewerConfigTypeName values the component distinguishes
ViewerConfigTypeName == {"POINT_CLOUD", "IMAGE_3D"}

\* identities of the camera objects one viewer has created and that are
\* still referenced (by the viewer, its label handler or the registry)
CameraIds == 0 .. 3

\* how often one viewer instance may be mounted in a behaviour
MaxMounts == 2

Vec0 == <<0, 0, 0>>
\* quaternions are <<x, y, z, w>>
QuatIdentity == <<0, 0, 0, 1>>
\* (new THREE.Quaternion()).setFromAxisAngle((1,0,0), PI)
QuatHalfTurnX == <<1, 0, 0, 0>>

NoExtrinsics == [rotation |-> <<0, 0, 0, 0>>, translation |-> Vec0, present |-> FALSE]

\* a multiplication in the other order: a := b * a
QuatMultiplyLeft(a, b) ==
  << b[1] * a[4] + b[4] * a[1] + b[2] * a[3] - b[3] * a[2],
     b[2] * a[4] + b[4] * a[2] + b[3] * a[1] - b[1] * a[3],
     b[3] * a[4] + b[4] * a[3] + b[1] * a[2] - b[2] * a[1],
     b[4] * a[4] - b[1] * a[1] - b[2] * a[2] - b[3] * a[3] >>

\* THREE.Quaternion.multiply: a := a * b
QuatMultiply(a, b) ==
  << a[1] * b[4] + a[4] * b[1] + a[2] * b[3] - a[3] * b[2],
     a[2] * b[4] + a[4] * b[2] + a[3] * b[1] - a[1] * b[3],
     a[3] * b[4] + a[4] * b[3] + a[1] * b[2] - a[2] * b[1],
     a[4] * b[4] - a[1] * b[1] - a[2] * b[2] - a[3] * b[3] >>

Min(S) == CHOOSE m \in S : \A n \in S : m <= n

----------------------------------------------------------------------------
(* Application state snapshots (the part of State the component reads) *)

ViewerConfigs ==
  [type : ViewerConfigTypeName, sensor : SensorIds]

\* the viewerConfigs maps that configure some of the viewers V, never none
ViewerConfigMaps(V, configs) ==
  UNION { [D -> configs] : D \in (SUBSET V) \ {{}} }

\* the maps that configure exactly the viewers V
FullConfigMaps(V, configs) == [V -> configs]

\* sensor 0 is a sensor of the task, with or without intrinsics and
\* extrinsics; sensor 1 is not among the task's sensors
SensorMaps(intrinsics, extrinsics) ==
  { [s \in {0} |-> [intrinsics |-> i, extrinsics |-> e]] :
      i \in intrinsics, e \in extrinsics }

\* the labels of the selected item, each with the sensors it is associated
\* with (item.labels[id].sensors)
LabelMaps(L, sensorSets) ==
  UNION { [D -> sensorSets] : D \in SUBSET L }

NoLabels == LabelMaps({}, {})

SnapshotsOf(configMaps, sensorMaps, loadedSets, labelMaps) ==
  { [viewerConfigs |-> c, sensors |-> s, loaded |-> l, labels |-> b] :
      c \in configMaps, s \in sensorMaps, l \in loadedSets,
      b \in labelMaps }

----------------------------------------------------------------------------
VARIABLES
  status,            \* Session.status
  activeViewerId,    \* Session.activeViewerId
  state,             \* the latest snapshot of the store (Session.getState())
  storeListeners,    \* viewers whose callback is subscribed to the store
  pending,           \* store listeners still to be called for `state'
  keydownListeners,  \* document 'keydown' listeners, in registration order
  keyupListeners,    \* document 'keyup' listeners, in registration order
  drawableCallbacks, \* Session.label3dList subscribers, in order
  activeCamera,      \* camera published by label3dList.setActiveCamera
  shapeLayers,       \* label in label3dList -> layers enabled on its shapes
  mounted,           \* viewer -> the component is mounted
  canvas,            \* viewer -> this.canvas is set
  renderer,          \* viewer -> this.renderer is set
  camera,            \* viewer -> this.camera
  labelHandlerCamera, \* viewer -> id of the camera this._labelHandler holds
  keyDownMap,        \* viewer -> keys k with this._keyDownMap[k] = true
  lastKeyEvent,      \* viewer -> key -> latest key event the viewer handled
  raycastableShapes, \* Session.label3dList.raycastableShapes
  raycast,           \* viewer -> the ray of its last hit test and the
                     \* intersection it passed to the label handler
  sessionKeyDownMap, \* Session.keyDownMap: keys k with keyDownMap[k] = true
  sessionKeyHistory, \* key -> the latest key events the Session received
  registered,        \* viewer -> addEventListener calls per event type
  deregistered,      \* viewer -> removeEventListener calls per event type
  trace              \* calls made by the last handler, in order

vars == << status, activeViewerId, state, storeListeners, pending,
           keydownListeners, keyupListeners, drawableCallbacks, activeCamera,
           shapeLayers, mounted, canvas, renderer, camera, labelHandlerCamera, keyDownMap,
           lastKeyEvent, raycastableShapes, raycast, sessionKeyDownMap,
           sessionKeyHistory, registered, deregistered, trace >>

sessionVars == << status, activeViewerId, state, storeListeners, pending >>
listenerVars == << keydownListeners, keyupListeners, drawableCallbacks,
                   registered, deregistered >>
cameraVars == << camera, labelHandlerCamera, activeCamera >>
keyVars == << keyDownMap, lastKeyEvent >>
sessionKeyVars == << sessionKeyDownMap, sessionKeyHistory >>

----------------------------------------------------------------------------
(* Helpers on sequences and traces *)

E(v, op) == << <<v, op>> >>

Range(s) == { s[i] : i \in 1 .. Len(s) }

Remove(s, x) == SelectSeq(s, LAMBDA y : y # x)

\* document.addEventListener ignores a listener that is already registered
AddListener(s, x) == IF x \in Range(s) THEN s ELSE Append(s, x)

Throws(t) == \E i \in 1 .. Len(t) : t[i][2] = "throw"

Calls(t, v, op) == { i \in 1 .. Len(t) : t[i] = <<v, op>> }

\* what the label handler returned to the handler of viewer v
Returned(v, r) == E(v, IF r THEN "return true" ELSE "return false")

----------------------------------------------------------------------------
(* Collaborators outside the component *)

\* DrawableCanvas.checkFreeze
checkFreeze == status = "RECONNECTING"

\* state_util.isCurrentFrameLoaded
isCurrentFrameLoaded(s, sensor) == sensor \in s.loaded

Configured(s, v) == v \in DOMAIN s.viewerConfigs

\* new THREE.PerspectiveCamera(45, 1, 0.1, 1000) / new IntrinsicCamera(...)
NewCamera(id, kind) ==
  [id |-> id, kind |-> kind, layer |-> 0,
   position |-> Vec0, quaternion |-> QuatIdentity]

\* the identity of a newly allocated camera object of viewer v
FreshCameraId(v) ==
  CHOOSE n \in CameraIds :
    /\ n # camera[v].id
    /\ n # labelHandlerCamera[v]
    /\ ~(activeCamera.owner = v /\ activeCamera.id = n)

\* view_config/point_cloud.updateThreeCameraAndRenderer: places the camera
\* from the point cloud view configuration
updateThreeCameraAndRenderer(cam) ==
  [cam EXCEPT !.position = <<0, 0, 1>>, !.quaternion = QuatIdentity]

----------------------------------------------------------------------------
(* Label3dCanvas, pure parts *)

\* the channel passed to camera.layers.set in updateState, as the bit of the
\* 32 bit mask of THREE.Layers it selects (1 << channel)
Layer(v, ids) == (v - Min(ids)) % 32

\* renderThree that renders whenever there is a renderer
renderThreeUnchecked(v) ==
  E(v, "renderThree") \o
  ( IF ~Configured(state, v) THEN E(v, "throw")
    ELSE IF renderer[v] THEN E(v, "render")
    ELSE << >> )

\* renderThree
renderThree(v) ==
  E(v, "renderThree") \o
  ( IF ~Configured(state, v) THEN E(v, "throw")
    ELSE IF renderer[v] /\ isCurrentFrameLoaded(state, state.viewerConfigs[v].sensor)
      THEN E(v, "render")
    ELSE IF renderer[v] THEN E(v, "clear")
    ELSE << >> )

\* Label3DList.onDrawableUpdate: calls the subscribed callbacks in order
RECURSIVE CallAll(_)
CallAll(cbs) ==
  IF cbs = << >> THEN << >>
  ELSE LET t == renderThree(Head(cbs))
       IN IF Throws(t) THEN t ELSE t \o CallAll(Tail(cbs))

onDrawableUpdate(v) == E(v, "onDrawableUpdate") \o CallAll(drawableCallbacks)

\* updateRenderer that does not look whether the sensor is among the task's
updateRendererAnySensor(v, cam, c, r) ==
  LET call == E(v, "updateRenderer") IN
  IF ~(c /\ r) \/ ~Configured(state, v)
    THEN [camera |-> cam, trace |-> call]
  ELSE LET config == state.viewerConfigs[v] IN
    IF config.type = "POINT_CLOUD"
      THEN [camera |-> updateThreeCameraAndRenderer(cam),
            trace |-> call \o E(v, "updateThreeCameraAndRenderer")]
    ELSE IF config.sensor \in DOMAIN state.sensors
      THEN LET extrinsics == state.sensors[config.sensor].extrinsics
               zeroed == [cam EXCEPT !.position = Vec0]
               rotated == [zeroed EXCEPT !.quaternion = extrinsics.rotation]
               turned == [rotated EXCEPT
                            !.quaternion = QuatMultiply(@, QuatHalfTurnX)]
               placed == [turned EXCEPT !.position = extrinsics.translation]
               posed == IF extrinsics.present THEN placed ELSE zeroed
           IN [camera |-> posed, trace |-> call \o E(v, "setSize")]
    ELSE [camera |-> [cam EXCEPT !.position = Vec0],
          trace |-> call \o E(v, "setSize")]

\* updateRenderer, on camera object cam of viewer v with canvas c, renderer r
updateRenderer(v, cam, c, r) ==
  LET call == E(v, "updateRenderer") IN
  IF ~(c /\ r) \/ ~Configured(state, v)
    THEN [camera |-> cam, trace |-> call]
  ELSE LET config == state.viewerConfigs[v] IN
    IF config.type = "POINT_CLOUD"
      THEN [camera |-> updateThreeCameraAndRenderer(cam),
            trace |-> call \o E(v, "updateThreeCameraAndRenderer")]
    ELSE IF config.sensor \in DOMAIN state.sensors
      THEN LET extrinsics == state.sensors[config.sensor].extrinsics
               zeroed == [cam EXCEPT !.position = Vec0]
               rotated == [zeroed EXCEPT !.quaternion = extrinsics.rotation]
               turned == [rotated EXCEPT
                            !.quaternion = QuatMultiply(@, QuatHalfTurnX)]
               placed == [turned EXCEPT !.position = extrinsics.translation]
               posed == IF extrinsics.present THEN placed ELSE zeroed
           IN [camera |-> posed, trace |-> call \o E(v, "setSize")]
    ELSE [camera |-> cam, trace |-> call]

\* redraw that renders without updating the renderer first
redrawWithoutUpdate(v, cam) ==
  LET call == E(v, "redraw") IN
  IF ~canvas[v] THEN [camera |-> cam, trace |-> call]
  ELSE IF ~Configured(state, v)
    THEN [camera |-> cam, trace |-> call \o E(v, "throw")]
  ELSE IF isCurrentFrameLoaded(state, state.viewerConfigs[v].sensor)
    THEN [camera |-> cam, trace |-> call \o renderThree(v)]
  ELSE IF renderer[v]
    THEN [camera |-> cam, trace |-> call \o E(v, "clear")]
  ELSE [camera |-> cam, trace |-> call]

\* redraw, on camera object cam
redraw(v, cam) ==
  LET call == E(v, "redraw") IN
  IF ~canvas[v] THEN [camera |-> cam, trace |-> call]
  ELSE IF ~Configured(state, v)
    THEN [camera |-> cam, trace |-> call \o E(v, "throw")]
  ELSE IF isCurrentFrameLoaded(state, state.viewerConfigs[v].sensor)
    THEN LET u == updateRenderer(v, cam, canvas[v], renderer[v])
         IN [camera |-> u.camera, trace |-> call \o u.trace \o renderThree(v)]
  ELSE IF renderer[v]
    THEN [camera |-> cam, trace |-> call \o E(v, "clear")]
  ELSE [camera |-> cam, trace |-> call]

----------------------------------------------------------------------------
(* The hit test of onMouseMove *)

\* the rays a mouse position can cast through the shapes S: the shapes the
\* ray meets, each with the distance of the intersection along the ray
RaysOver(S) == UNION { [D -> Distances] : D \in SUBSET S }

\* the ray that meets no shape
NoRay == << >>

\* no hit test yet
NoRaycast == [ray |-> NoRay, passed |-> << >>]

\* intersections in ascending order of distance; intersections at the same
\* distance are in the order of the objects
RECURSIVE SortByDistance(_)
SortByDistance(S) ==
  IF S = {} THEN << >>
  ELSE LET first == CHOOSE h \in S : \A g \in S :
                      \/ h.distance < g.distance
                      \/ h.distance = g.distance /\ h.object <= g.object
       IN << first >> \o SortByDistance(S \ {first})

\* this._raycaster.intersectObjects(shapes, false): the intersections of
\* the ray with the given objects, nearest first
intersectObjects(shapes, ray) ==
  SortByDistance({ [object |-> o, distance |-> ray[o]] :
                     o \in shapes \cap DOMAIN ray })

\* the farthest intersection as the hit
HitArgumentFarthest(intersects) ==
  IF Len(intersects) > 0 THEN << intersects[Len(intersects)] >> ELSE << >>

\* the optional third argument of labelHandler.onMouseMove: intersects[0]
\* if there is an intersection, no argument otherwise
HitArgument(intersects) ==
  IF Len(intersects) > 0 THEN << intersects[1] >> ELSE << >>

----------------------------------------------------------------------------
(* Label3dCanvas.updateState *)

\* the camera updateState selects: a new IntrinsicCamera, a new
\* PerspectiveCamera, or the camera the viewer already has
SelectCamera(v, cam) ==
  LET config == state.viewerConfigs[v] IN
  IF config.type = "IMAGE_3D"
    THEN IF /\ config.sensor \in DOMAIN state.sensors
            /\ state.sensors[config.sensor].intrinsics
            /\ isCurrentFrameLoaded(state, config.sensor)
           THEN NewCamera(FreshCameraId(v), "Intrinsic")
           ELSE cam
    ELSE NewCamera(FreshCameraId(v), "Generic")

\* the layer updateState enables on the shapes of a label: shape.layers
\* .enable(this.props.id), as a bit of the 32 bit mask
ShapeLayer(v) == v % 32

\* the shapes' layers after the loop of updateState over the labels of the
\* selected item: the labels associated with the viewer's sensor that have
\* a drawable in label3dList get the viewer's layer enabled
EnableShapes(v, shapes) ==
  LET sensorId == state.viewerConfigs[v].sensor IN
  [ l \in DOMAIN shapes |->
      IF l \in DOMAIN state.labels /\ sensorId \in state.labels[l]
        THEN shapes[l] \cup {ShapeLayer(v)}
        ELSE shapes[l] ]

\* updateState that leaves the label handler with the camera it has
HandlerCameraKept(v, cam) == labelHandlerCamera[v]

\* this._labelHandler.camera = this.camera
HandlerCamera(v, cam) == cam.id

\* whether updateState publishes the camera to the registry
PublishesCamera(v) == activeViewerId = v

\* updateState(state): the camera, the label handler's camera, the shapes'
\* layers, the registry's active camera and the calls made.  The display
\* container (this.display, forceUpdate) is layout only and not part of the
\* state.
updateState(v) ==
  LET call == E(v, "updateState")
      layered == [camera[v] EXCEPT
                    !.layer = Layer(v, DOMAIN state.viewerConfigs)]
  IN
  IF ~Configured(state, v)
    THEN \* viewerConfig is undefined: reading viewerConfig.sensor throws
         [camera |-> layered, handler |-> labelHandlerCamera[v],
          shapes |-> shapeLayers,
          active |-> activeCamera, trace |-> call \o E(v, "throw")]
  ELSE LET cam == SelectCamera(v, layered)
           publish == PublishesCamera(v)
       IN [camera |-> cam, handler |-> HandlerCamera(v, cam),
           shapes |-> EnableShapes(v, shapeLayers),
           active |-> IF publish THEN [owner |-> v, id |-> cam.id]
                                 ELSE activeCamera,
           trace |-> call
                     \o (IF publish THEN E(v, "setActiveCamera") ELSE << >>)
                     \o E(v, "labelHandler.updateState")]

----------------------------------------------------------------------------
(* Initial state: the Session and the viewers are constructed, no viewer is
   mounted yet, the store holds one of the given snapshots and label3dList
   holds drawables, on the default layer, for the given labels *)

InitOver(snapshots, drawables) ==
  /\ status = "UNSAVED"
  /\ activeViewerId = NoViewer
  /\ state \in snapshots
  /\ storeListeners = {}
  /\ pending = {}
  /\ keydownListeners = << >>
  /\ keyupListeners = << >>
  /\ drawableCallbacks = << >>
  /\ activeCamera = [owner |-> NoViewer, id |-> 0]
  /\ shapeLayers = [l \in drawables |-> {0}]
  /\ mounted = [v \in ViewerIds |-> FALSE]
  /\ canvas = [v \in ViewerIds |-> FALSE]
  /\ renderer = [v \in ViewerIds |-> FALSE]
  /\ camera = [v \in ViewerIds |-> NewCamera(0, "Generic")]
  /\ labelHandlerCamera = [v \in ViewerIds |-> 0]
  /\ keyDownMap = [v \in ViewerIds |-> {}]
  /\ lastKeyEvent = [v \in ViewerIds |-> [k \in Keys |-> "none"]]
  /\ raycastableShapes = {}
  /\ raycast = [v \in ViewerIds |-> NoRaycast]
  /\ sessionKeyDownMap = {}
  /\ sessionKeyHistory = [k \in Keys |-> NoKeyEvent]
  /\ registered = [v \in ViewerIds |-> [keydown |-> 0, keyup |-> 0]]
  /\ deregistered = [v \in ViewerIds |-> [keydown |-> 0, keyup |-> 0]]
  /\ trace = << >>

----------------------------------------------------------------------------
(* Session *)

\* Session.subscribe(callback): store.subscribe(callback); the function
\* redux returns to unsubscribe is dropped
SessionSubscribe(listeners, v) == listeners \cup {v}

\* Session.updateStatus
UpdateStatus(newStatus) ==
  /\ pending = {}
  /\ status' = newStatus
  /\ trace' = << >>
  /\ UNCHANGED << activeViewerId, state, storeListeners, pending,
                  listenerVars, cameraVars, shapeLayers, keyVars,
                  raycastableShapes, raycast, sessionKeyVars, mounted,
                  canvas,
                  renderer >>

\* Session.activeViewerId = v, by the container the pointer enters
SetActiveViewer(v) ==
  /\ pending = {}
  /\ activeViewerId # v
  /\ activeViewerId' = v
  /\ trace' = << >>
  /\ UNCHANGED << status, state, storeListeners, pending,
                  listenerVars, cameraVars, shapeLayers, keyVars,
                  raycastableShapes, raycast, sessionKeyVars, mounted,
                  canvas,
                  renderer >>

\* the store takes snapshot s and starts calling its listeners
StateNotify(s) ==
  /\ pending = {}
  /\ state' = s
  /\ pending' = storeListeners
  /\ trace' = << >>
  /\ UNCHANGED << status, activeViewerId, storeListeners,
                  listenerVars, cameraVars, shapeLayers, keyVars,
                  raycastableShapes, raycast, sessionKeyVars, mounted,
                  canvas,
                  renderer >>

SessionKeyFrame ==
  UNCHANGED << sessionVars, listenerVars, cameraVars, shapeLayers, keyVars,
               raycastableShapes, raycast, mounted, canvas, renderer >>

\* Session.onKeyDown that records the key whatever the status
SessionKeyDownGateOpen == TRUE

\* the guard of Session.onKeyDown
SessionKeyDownGate == ~(status = "RECONNECTING")

\* Session.onKeyDown(e, callback) with e.key = k.  The history keeps the
\* latest event of the key with the status it was received under, and the
\* latest event of the key that is not a key-down received while
\* RECONNECTING.
SessionKeyDown(k) ==
  /\ pending = {}
  /\ sessionKeyDownMap' =
       IF SessionKeyDownGate THEN sessionKeyDownMap \cup {k}
                             ELSE sessionKeyDownMap
  /\ sessionKeyHistory' =
       [sessionKeyHistory EXCEPT
          ![k] = [event |-> "down", status |-> status,
                  heeded |-> IF status = "RECONNECTING" THEN @.heeded
                                                         ELSE "down"]]
  /\ trace' = E(NoViewer, "Session.onKeyDown") \o
       (IF SessionKeyDownGate THEN E(NoViewer, "callback") ELSE << >>)
  /\ SessionKeyFrame

\* Session.onKeyUp(e, callback) with e.key = k
SessionKeyUp(k) ==
  /\ pending = {}
  /\ sessionKeyDownMap' = sessionKeyDownMap \ {k}
  /\ sessionKeyHistory' =
       [sessionKeyHistory EXCEPT
          ![k] = [event |-> "up", status |-> status, heeded |-> "up"]]
  /\ trace' = E(NoViewer, "Session.onKeyUp") \o E(NoViewer, "callback")
  /\ SessionKeyFrame

\* Session.isKeyDown(key)
isKeyDown(k) == k \in sessionKeyDownMap

\* the registry gets or loses a hit-testable object between two events
AddShape(o) ==
  /\ pending = {}
  /\ o \notin raycastableShapes
  /\ raycastableShapes' = raycastableShapes \cup {o}
  /\ trace' = << >>
  /\ UNCHANGED << sessionVars, listenerVars, cameraVars, shapeLayers, keyVars,
                  raycast, sessionKeyVars, mounted, canvas, renderer >>

RemoveShape(o) ==
  /\ pending = {}
  /\ o \in raycastableShapes
  /\ raycastableShapes' = raycastableShapes \ {o}
  /\ trace' = << >>
  /\ UNCHANGED << sessionVars, listenerVars, cameraVars, shapeLayers, keyVars,
                  raycast, sessionKeyVars, mounted, canvas, renderer >>

----------------------------------------------------------------------------
(* Label3dCanvas lifecycle *)

\* DrawableCanvas.componentDidMount / componentWillUnmount: the component
\* listens to the store through Session.subscribe, which gives it nothing
\* to unsubscribe with
SuperComponentDidMount(v) == storeListeners' = SessionSubscribe(storeListeners, v)
SuperComponentWillUnmount(v) == storeListeners' = storeListeners

\* componentWillUnmount that leaves the keyup listener on the document
UnmountKeyupForgotten(ls, v) == ls

\* the listeners componentWillUnmount removes from the document
UnmountKeydown(ls, v) == Remove(ls, v)
UnmountKeyup(ls, v) == Remove(ls, v)
\* Session.label3dList.unsubscribe(this._drawableUpdateCallback)
UnmountDrawable(cbs, v) == Remove(cbs, v)

\* componentDidMount; an instance is mounted at most cap times
Mount(v, cap) ==
  /\ pending = {}
  /\ ~mounted[v]
  /\ registered[v].keydown < cap
  /\ SuperComponentDidMount(v)
  /\ mounted' = [mounted EXCEPT ![v] = TRUE]
  /\ keydownListeners' = AddListener(keydownListeners, v)
  /\ keyupListeners' = AddListener(keyupListeners, v)
  /\ drawableCallbacks' = Append(drawableCallbacks, v)
  /\ registered' = [registered EXCEPT ![v] =
                      [keydown |-> @.keydown + 1, keyup |-> @.keyup + 1]]
  /\ trace' = << >>
  /\ UNCHANGED << status, activeViewerId, state, pending, deregistered,
                  cameraVars, shapeLayers, keyVars, raycastableShapes,
                  raycast, sessionKeyVars, canvas, renderer >>

\* componentWillUnmount
Unmount(v) ==
  /\ pending = {}
  /\ mounted[v]
  /\ SuperComponentWillUnmount(v)
  /\ mounted' = [mounted EXCEPT ![v] = FALSE]
  /\ keydownListeners' = UnmountKeydown(keydownListeners, v)
  /\ keyupListeners' = UnmountKeyup(keyupListeners, v)
  /\ drawableCallbacks' = UnmountDrawable(drawableCallbacks, v)
  /\ deregistered' = [deregistered EXCEPT ![v] =
                        [keydown |-> @.keydown + 1, keyup |-> @.keyup + 1]]
  /\ trace' = << >>
  /\ UNCHANGED << status, activeViewerId, state, pending, registered,
                  cameraVars, shapeLayers, keyVars, raycastableShapes,
                  raycast, sessionKeyVars, canvas, renderer >>

\* initializeRefs(component), the ref callback of the canvas element;
\* component is TRUE for the canvas element and FALSE for null.  The sizing
\* of the canvas (display, scale) is layout only and not part of the state.
InitializeRefs(v, component) ==
  /\ pending = {}
  /\ mounted[v]
  /\ LET call == E(v, "initializeRefs") IN
     IF ~Configured(state, v)
       THEN /\ trace' = call \o E(v, "throw")
            /\ UNCHANGED << canvas, renderer, camera >>
     ELSE IF ~component
             \/ ~isCurrentFrameLoaded(state, state.viewerConfigs[v].sensor)
       THEN /\ trace' = call
            /\ UNCHANGED << canvas, renderer, camera >>
     ELSE LET u == updateRenderer(v, camera[v], TRUE, TRUE) IN
          /\ canvas' = [canvas EXCEPT ![v] = TRUE]
          /\ renderer' = [renderer EXCEPT ![v] = TRUE]
          /\ camera' = [camera EXCEPT ![v] = u.camera]
          /\ trace' = call \o u.trace
  /\ UNCHANGED << sessionVars, listenerVars, labelHandlerCamera,
                  activeCamera, shapeLayers, keyVars,
                  raycastableShapes, raycast, sessionKeyVars, mounted >>

\* a store listener of viewer v runs: updateState(state), then redraw()
UpdateState(v) ==
  /\ v \in pending
  /\ pending' = pending \ {v}
  /\ LET u == updateState(v)
         r == IF Throws(u.trace)
                THEN [camera |-> u.camera, trace |-> << >>]
                ELSE redraw(v, u.camera)
     IN /\ camera' = [camera EXCEPT ![v] = r.camera]
        /\ labelHandlerCamera' = [labelHandlerCamera EXCEPT ![v] = u.handler]
        /\ activeCamera' = u.active
        /\ shapeLayers' = u.shapes
        /\ trace' = u.trace \o r.trace
  /\ UNCHANGED << status, activeViewerId, state, storeListeners,
                  listenerVars, keyVars, raycastableShapes, raycast,
                  sessionKeyVars, mounted, canvas, renderer >>

----------------------------------------------------------------------------
(* Label3dCanvas pointer handlers.  consumed is what the label handler
   returns; the handlers change nothing but the calls they make and, for
   onMouseMove, the ray of the raycaster *)

PointerFrame ==
  UNCHANGED << sessionVars, listenerVars, cameraVars, shapeLayers, keyVars,
               raycastableShapes, sessionKeyVars, mounted, canvas,
               renderer >>

\* the guard of onMouseDown, onMouseUp and onMouseMove
PointerGate(v) == ~(~canvas[v] \/ checkFreeze)

\* the guard of onDoubleClick: the handler has none
DoubleClickGate(v) == TRUE

\* a handler that stops the propagation of every event it handles
StopAlways(v, consumed) == E(v, "stopPropagation")

\* if (consumed) { e.stopPropagation() }
StopIf(v, consumed) == IF consumed THEN E(v, "stopPropagation") ELSE << >>

\* onMouseDown
MouseDown(v, consumed) ==
  /\ pending = {}
  /\ mounted[v]
  /\ trace' = E(v, "onMouseDown") \o
       ( IF PointerGate(v)
           THEN E(v, "labelHandler.onMouseDown") \o Returned(v, consumed)
                \o StopIf(v, consumed)
           ELSE << >> )
  /\ UNCHANGED raycast
  /\ PointerFrame

\* onMouseUp
MouseUp(v, consumed) ==
  /\ pending = {}
  /\ mounted[v]
  /\ trace' = E(v, "onMouseUp") \o
       ( IF PointerGate(v)
           THEN E(v, "labelHandler.onMouseUp") \o Returned(v, consumed)
                \o StopIf(v, consumed)
           ELSE << >> )
  /\ UNCHANGED raycast
  /\ PointerFrame

\* onMouseMove; ray is the ray the mouse position casts from the camera
MouseMove(v, ray, consumed) ==
  /\ pending = {}
  /\ mounted[v]
  /\ IF PointerGate(v)
       THEN LET shapes == raycastableShapes
                intersects == intersectObjects(shapes, ray)
                hit == HitArgument(intersects)
            IN /\ raycast' = [raycast EXCEPT
                                ![v] = [ray |-> ray, passed |-> hit]]
               /\ trace' = E(v, "onMouseMove")
                    \o E(v, IF hit # << >>
                               THEN "labelHandler.onMouseMove(hit)"
                               ELSE "labelHandler.onMouseMove()")
                    \o Returned(v, consumed)
                    \o StopIf(v, consumed)
                    \o onDrawableUpdate(v)
       ELSE /\ UNCHANGED raycast
            /\ trace' = E(v, "onMouseMove")
  /\ PointerFrame

\* onDoubleClick
DoubleClick(v, consumed) ==
  /\ pending = {}
  /\ mounted[v]
  /\ trace' = E(v, "onDoubleClick") \o
       ( IF DoubleClickGate(v)
           THEN E(v, "labelHandler.onDoubleClick") \o Returned(v, consumed)
                \o StopIf(v, consumed)
           ELSE << >> )
  /\ UNCHANGED raycast
  /\ PointerFrame

----------------------------------------------------------------------------
(* Label3dCanvas key handlers, called by the document for every registered
   listener in registration order.  changed is what the label handler
   returns *)

\* onKeyDown without the active viewer check
KeyDownGateAnyViewer(v) == ~checkFreeze

\* the guard of onKeyDown
KeyDownGate(v) == ~(checkFreeze \/ activeViewerId # v)

\* the guard of onKeyUp
KeyUpGate(v) == ~(checkFreeze \/ activeViewerId # v)

\* this._keyDownMap after onKeyDown has recorded key k
KeyDownRecord(map, k) == map \cup {k}

\* this._keyDownMap after onKeyUp has recorded key k
KeyUpRecord(map, k) == map \cup {k}

\* onKeyDown that notifies the registry whatever the label handler returns
onKeyDownTraceAlways(v, changed) ==
  E(v, "onKeyDown") \o
  ( IF KeyDownGate(v)
      THEN E(v, "labelHandler.onKeyDown") \o Returned(v, changed)
           \o onDrawableUpdate(v)
      ELSE << >> )

\* onKeyDown
onKeyDownTrace(v, changed) ==
  E(v, "onKeyDown") \o
  ( IF KeyDownGate(v)
      THEN E(v, "labelHandler.onKeyDown") \o Returned(v, changed)
           \o (IF changed THEN onDrawableUpdate(v) ELSE << >>)
      ELSE << >> )

\* onKeyUp
onKeyUpTrace(v, changed) ==
  E(v, "onKeyUp") \o
  ( IF KeyUpGate(v)
      THEN E(v, "labelHandler.onKeyUp") \o Returned(v, changed)
           \o (IF changed THEN onDrawableUpdate(v) ELSE << >>)
      ELSE << >> )

RECURSIVE DispatchKeyDown(_, _)
DispatchKeyDown(ls, changed) ==
  IF ls = << >> THEN << >>
  ELSE onKeyDownTrace(Head(ls), changed) \o DispatchKeyDown(Tail(ls), changed)

RECURSIVE DispatchKeyUp(_, _)
DispatchKeyUp(ls, changed) ==
  IF ls = << >> THEN << >>
  ELSE onKeyUpTrace(Head(ls), changed) \o DispatchKeyUp(Tail(ls), changed)

KeyFrame ==
  UNCHANGED << sessionVars, listenerVars, cameraVars, shapeLayers,
               raycastableShapes, raycast, sessionKeyVars, mounted, canvas,
               renderer >>

\* a keydown event of key k on the document
KeyDown(k, changed) ==
  /\ pending = {}
  /\ keyDownMap' =
       [v \in ViewerIds |->
          IF v \in Range(keydownListeners) /\ KeyDownGate(v)
            THEN KeyDownRecord(keyDownMap[v], k) ELSE keyDownMap[v]]
  /\ lastKeyEvent' =
       [v \in ViewerIds |->
          IF v \in Range(keydownListeners) /\ KeyDownGate(v)
            THEN [lastKeyEvent[v] EXCEPT ![k] = "down"] ELSE lastKeyEvent[v]]
  /\ trace' = DispatchKeyDown(keydownListeners, changed)
  /\ KeyFrame

\* a keyup event of key k on the document
KeyUp(k, changed) ==
  /\ pending = {}
  /\ keyDownMap' =
       [v \in ViewerIds |->
          IF v \in Range(keyupListeners) /\ KeyUpGate(v)
            THEN KeyUpRecord(keyDownMap[v], k) ELSE keyDownMap[v]]
  /\ lastKeyEvent' =
       [v \in ViewerIds |->
          IF v \in Range(keyupListeners) /\ KeyUpGate(v)
            THEN [lastKeyEvent[v] EXCEPT ![k] = "up"] ELSE lastKeyEvent[v]]
  /\ trace' = DispatchKeyUp(keyupListeners, changed)
  /\ KeyFrame

----------------------------------------------------------------------------
(* Specifications.  Each one runs the same handlers over the inputs its
   properties are about. *)

StatusInputs == {"UNSAVED", "RECONNECTING"}

PointCloud0 == [type |-> "POINT_CLOUD", sensor |-> 0]
Image0 == [type |-> "IMAGE_3D", sensor |-> 0]

(* Input handling: two viewers, each mounted once, pointer and key events
   under every status, over a point cloud viewer and an image viewer whose
   frame is loaded *)

InputSnapshots ==
  SnapshotsOf({ [v \in ViewerIds |-> IF v = 0 THEN PointCloud0 ELSE Image0] },
              SensorMaps({TRUE}, {NoExtrinsics}),
              {{0}},
              NoLabels)

Init == InitOver(InputSnapshots, {})

Next ==
  \/ \E s \in StatusInputs : UpdateStatus(s)
  \/ \E v \in ViewerIds : SetActiveViewer(v)
  \/ \E v \in ViewerIds : Mount(v, 1)
  \/ \E v \in ViewerIds, c \in BOOLEAN : InitializeRefs(v, c)
  \/ \E v \in ViewerIds, c \in BOOLEAN : MouseDown(v, c)
  \/ \E v \in ViewerIds, c \in BOOLEAN : MouseUp(v, c)
  \/ \E v \in ViewerIds, c \in BOOLEAN : MouseMove(v, NoRay, c)
  \/ \E v \in ViewerIds, c \in BOOLEAN : DoubleClick(v, c)
  \/ \E c \in BOOLEAN : KeyDown("a", c)
  \/ \E c \in BOOLEAN : KeyUp("a", c)

Spec == Init /\ [][Next]_vars

(* Lifecycle: viewer 0 is mounted and unmounted repeatedly next to viewer 1,
   while the store and the registry keep notifying *)

LifecycleSnapshots ==
  SnapshotsOf({ [v \in ViewerIds |-> PointCloud0] },
              SensorMaps({TRUE}, {NoExtrinsics}),
              {{}, {0}},
              NoLabels)

InitLifecycle == InitOver(LifecycleSnapshots, {})

NextLifecycle ==
  \/ Mount(0, MaxMounts)
  \/ Mount(1, 1)
  \/ Unmount(0)
  \/ \E c \in BOOLEAN : InitializeRefs(0, c)
  \/ \E s \in LifecycleSnapshots : StateNotify(s)
  \/ \E v \in ViewerIds : UpdateState(v)
  \/ \E c \in BOOLEAN : MouseMove(1, NoRay, c)

SpecLifecycle == InitLifecycle /\ [][NextLifecycle]_vars

(* Camera selection: one viewer over every combination of viewer type,
   sensor, intrinsics and frame status *)

CameraSnapshots ==
  SnapshotsOf(FullConfigMaps({0}, ViewerConfigs),
              SensorMaps(BOOLEAN, {NoExtrinsics}),
              SUBSET SensorIds,
              NoLabels)

InitCamera == InitOver(CameraSnapshots, {})

NextCamera ==
  \/ \E v \in {0, 1} : SetActiveViewer(v)
  \/ Mount(0, 1)
  \/ \E c \in BOOLEAN : InitializeRefs(0, c)
  \/ \E s \in CameraSnapshots : StateNotify(s)
  \/ UpdateState(0)

SpecCamera == InitCamera /\ [][NextCamera]_vars

(* Several viewers: two viewers that are configured or not, of either type,
   and an active viewer that moves between them *)

ViewersSnapshots ==
  SnapshotsOf(ViewerConfigMaps(ViewerIds, {PointCloud0, Image0}),
              SensorMaps({TRUE}, {NoExtrinsics}),
              {{}, {0}},
              NoLabels)

InitViewers ==
  InitOver({ s \in ViewersSnapshots : DOMAIN s.viewerConfigs = ViewerIds }, {})

NextViewers ==
  \/ \E v \in ViewerIds : SetActiveViewer(v)
  \/ \E v \in ViewerIds : Mount(v, 1)
  \/ \E s \in ViewersSnapshots : StateNotify(s)
  \/ \E v \in ViewerIds : UpdateState(v)

SpecViewers == InitViewers /\ [][NextViewers]_vars

(* Redraw: two viewers with canvases, notified by the store and by the
   registry, whose frames load and unload and whose configuration may go *)

RedrawSnapshots ==
  SnapshotsOf(ViewerConfigMaps(ViewerIds, {PointCloud0, Image0}),
              SensorMaps({TRUE}, {NoExtrinsics}),
              {{}, {0}},
              NoLabels)

InitRedraw ==
  InitOver({ s \in RedrawSnapshots : DOMAIN s.viewerConfigs = ViewerIds }, {})

NextRedraw ==
  \/ \E v \in ViewerIds : Mount(v, 1)
  \/ \E v \in ViewerIds, c \in BOOLEAN : InitializeRefs(v, c)
  \/ \E s \in RedrawSnapshots : StateNotify(s)
  \/ \E v \in ViewerIds : UpdateState(v)
  \/ \E v \in ViewerIds, c \in BOOLEAN : MouseMove(v, NoRay, c)

SpecRedraw == InitRedraw /\ [][NextRedraw]_vars

(* Layers: two viewers of either type over labels that are or are not
   associated with the viewers' sensor; label 0 has a drawable in
   label3dList, label 1 has none *)

LayersSnapshots ==
  SnapshotsOf(ViewerConfigMaps(ViewerIds, {PointCloud0, Image0}),
              SensorMaps({FALSE}, {NoExtrinsics}),
              {{}},
              LabelMaps(LabelIds, {{}, {0}}))

InitLayers ==
  InitOver({ s \in LayersSnapshots : DOMAIN s.viewerConfigs = ViewerIds },
           {0})

NextLayers ==
  \/ \E v \in ViewerIds : Mount(v, 1)
  \/ \E s \in LayersSnapshots : StateNotify(s)
  \/ \E v \in ViewerIds : UpdateState(v)

SpecLayers == InitLayers /\ [][NextLayers]_vars

(* Hit test: one point cloud viewer over a registry whose hit-testable
   objects come and go between the mouse moves, and rays that meet any of
   the objects at any of the distances *)

HitTestSnapshots ==
  SnapshotsOf({ [v \in {0} |-> PointCloud0] },
              SensorMaps({TRUE}, {NoExtrinsics}),
              {{0}},
              NoLabels)

InitHitTest == InitOver(HitTestSnapshots, {})

NextHitTest ==
  \/ Mount(0, 1)
  \/ \E c \in BOOLEAN : InitializeRefs(0, c)
  \/ \E o \in ShapeIds : AddShape(o)
  \/ \E o \in ShapeIds : RemoveShape(o)
  \/ \E r \in RaysOver(ShapeIds), c \in BOOLEAN : MouseMove(0, r, c)

SpecHitTest == InitHitTest /\ [][NextHitTest]_vars

(* Pose: one viewer that is a point cloud viewer, an image viewer of sensor
   0, which is a sensor of the task with or without extrinsics, or an image
   viewer of sensor 1, which is not *)

Image1 == [type |-> "IMAGE_3D", sensor |-> 1]

\* extrinsics with the identity rotation and with a half turn about Y
PoseExtrinsics ==
  { NoExtrinsics,
    [rotation |-> QuatIdentity, translation |-> <<1, 2, 3>>,
     present |-> TRUE],
    [rotation |-> <<0, 1, 0, 0>>, translation |-> <<4, 5, 6>>,
     present |-> TRUE] }

PoseSnapshots ==
  SnapshotsOf(FullConfigMaps({0}, {PointCloud0, Image0, Image1}),
              SensorMaps(BOOLEAN, PoseExtrinsics),
              {{}, {0, 1}},
              NoLabels)

InitPose == InitOver(PoseSnapshots, {})

NextPose ==
  \/ Mount(0, 1)
  \/ \E c \in BOOLEAN : InitializeRefs(0, c)
  \/ \E s \in PoseSnapshots : StateNotify(s)
  \/ UpdateState(0)

SpecPose == InitPose /\ [][NextPose]_vars

(* Session keys: key-down and key-up events of two keys reach the Session
   under every connection status *)

InitSession == InitOver(InputSnapshots, {})

NextSession ==
  \/ \E s \in ConnectionStatus : UpdateStatus(s)
  \/ \E k \in Keys : SessionKeyDown(k)
  \/ \E k \in Keys : SessionKeyUp(k)

SpecSession == InitSession /\ [][NextSession]_vars

----------------------------------------------------------------------------
(* Properties of input handling *)

InputHandlers ==
  {"onMouseDown", "onMouseUp", "onMouseMove", "onDoubleClick",
   "onKeyDown", "onKeyUp"}

\* the last step was one of the six input handlers
IsInputTrace(t) == t # << >> /\ t[1][2] \in InputHandlers

\* the viewers whose label handler received a key event in trace t
KeyDelegates(t) ==
  { w \in ViewerIds :
      Calls(t, w, "labelHandler.onKeyDown") \cup
      Calls(t, w, "labelHandler.onKeyUp") # {} }

\* C1: while the freeze condition holds, an input handler (mouse-down,
\* mouse-up, mouse-move, double-click, key-down, key-up) calls no method of
\* the label handler, leaves every key-down set unchanged and issues no
\* scene-update notification and no redraw: all it does is return.
C1_FreezeGating ==
  [][ (checkFreeze /\ IsInputTrace(trace')) =>
        /\ keyDownMap' = keyDownMap
        /\ \A i \in 1 .. Len(trace') : trace'[i][2] \in InputHandlers ]_vars

\* C3: the key-down set of a viewer records as down exactly the keys whose
\* latest event handled by the viewer was a key-down; in particular a key is
\* not recorded as down once the viewer has handled its key-up.
C3_KeyDownSet ==
  \A v \in ViewerIds, k \in Keys :
    k \in keyDownMap[v] <=> lastKeyEvent[v][k] = "down"

\* C8: a document key event reaches the label handler of a viewer only if
\* the viewer is not frozen and is the globally active viewer, and it reaches
\* the label handler of at most one viewer.
C8_KeyboardRouting ==
  /\ \A w \in KeyDelegates(trace) : ~checkFreeze /\ activeViewerId = w
  /\ Cardinality(KeyDelegates(trace)) <= 1

\* a key-down event was dispatched to the listeners of both mounted viewers
\* and one of them passed it to its label handler
C8_Witness ==
  /\ Calls(trace, 0, "onKeyDown") # {}
  /\ Calls(trace, 1, "onKeyDown") # {}
  /\ Cardinality(KeyDelegates(trace)) = 1

----------------------------------------------------------------------------
(* Properties of the lifecycle *)

Occurrences(s, x) == Cardinality({ i \in 1 .. Len(s) : s[i] = x })

\* some call in trace t was made by (or on behalf of) viewer v
CalledOn(t, v) == \E i \in 1 .. Len(t) : t[i][1] = v

\* C4: after any number of alternating mounts and unmounts of a viewer as
\* many keydown as keyup listeners were registered and deregistered; while
\* the viewer is mounted exactly one keydown and one keyup listener of it is
\* on the document (one more registered than deregistered), and after an
\* unmount none is (as many deregistered as registered).
C4_ListenerLifecycle ==
  \A v \in ViewerIds :
    /\ registered[v].keydown = registered[v].keyup
    /\ deregistered[v].keydown = deregistered[v].keyup
    /\ mounted[v] =>
         /\ Occurrences(keydownListeners, v) = 1
         /\ Occurrences(keyupListeners, v) = 1
         /\ registered[v].keydown = deregistered[v].keydown + 1
    /\ ~mounted[v] =>
         /\ Occurrences(keydownListeners, v) = 0
         /\ Occurrences(keyupListeners, v) = 0
         /\ registered[v].keydown = deregistered[v].keydown

\* viewer 0 has been mounted and unmounted as often as the bound allows
C4_Witness ==
  /\ ~mounted[0]
  /\ registered[0].keydown = MaxMounts
  /\ deregistered[0].keydown = MaxMounts

----------------------------------------------------------------------------
(* Properties of the camera *)

\* updateState of viewer v ran to its end in the last step
Reconciled(v) == Calls(trace, v, "labelHandler.updateState") # {}

\* C2: after updateState has processed a snapshot in which the viewer is
\* image-with-intrinsics and the current frame of its sensor is not loaded,
\* the viewer's camera is the generic perspective camera, whatever camera it
\* had before.
C2_CameraFallback ==
  \A v \in ViewerIds :
    ( /\ Reconciled(v)
      /\ state.viewerConfigs[v].type = "IMAGE_3D"
      /\ ~isCurrentFrameLoaded(state, state.viewerConfigs[v].sensor) )
    => camera[v].kind = "Generic"

\* C6: a viewer calls setActiveCamera only while it is the globally active
\* viewer, and when all store listeners have processed a state notification
\* the camera published in the registry is the current camera object of the
\* active viewer.
C6_ActiveCameraPublication ==
  /\ [](\A v \in ViewerIds :
          Calls(trace, v, "setActiveCamera") # {} => activeViewerId = v)
  /\ [][ (pending # {} /\ pending' = {} /\ activeViewerId \in storeListeners)
           => activeCamera' = [owner |-> activeViewerId,
                               id |-> camera'[activeViewerId].id] ]_vars

\* C7: after updateState the layer of the viewer's camera is the function
\* Layer of the viewer id and the set of configured viewer ids; the lowest
\* configured id has layer 0 and distinct viewers have distinct layers.
C7_LayerAssignment ==
  LET ids == DOMAIN state.viewerConfigs IN
  /\ \A v \in ViewerIds :
       Calls(trace, v, "updateState") # {} => camera[v].layer = Layer(v, ids)
  /\ Layer(Min(ids), ids) = 0
  /\ \A v, w \in ViewerIds : v # w => Layer(v, ids) # Layer(w, ids)

----------------------------------------------------------------------------
(* Properties of redrawing *)

FrameLoaded(v) ==
  isCurrentFrameLoaded(state, state.viewerConfigs[v].sensor)

\* viewer v is configured and has a canvas and a renderer
Drawable(v) == Configured(state, v) /\ canvas[v] /\ renderer[v]

\* the last step was a scene-update notification of the registry
SceneUpdate(t) == \E i \in 1 .. Len(t) : t[i][2] = "onDrawableUpdate"

Count(t, v, op) == Cardinality(Calls(t, v, op))

\* in trace t viewer v updated its renderer and then rendered once
UpdatedThenRendered(t, v) ==
  /\ Count(t, v, "updateRenderer") = 1
  /\ Count(t, v, "render") = 1
  /\ Count(t, v, "clear") = 0
  /\ \A i \in Calls(t, v, "updateRenderer"), j \in Calls(t, v, "render") : i < j

\* in trace t viewer v cleared its renderer and did not render
ClearedOnly(t, v) ==
  /\ Count(t, v, "clear") = 1
  /\ Count(t, v, "render") = 0

\* C9: whenever the store listener (redraw) or the scene-update callback of
\* a configured viewer with canvas and renderer is called, the viewer, if
\* the current frame of its sensor is loaded, first updates the renderer
\* parameters (updateRenderer) and then renders the scene exactly once, and
\* otherwise clears the renderer and does not render.
C9_RedrawPolicy ==
  \A v \in ViewerIds :
    ( /\ Drawable(v)
      /\ \/ Count(trace, v, "redraw") > 0
         \/ SceneUpdate(trace) /\ Count(trace, v, "renderThree") > 0 )
    => IF FrameLoaded(v) THEN UpdatedThenRendered(trace, v)
                         ELSE ClearedOnly(trace, v)

\* C9 as amended: redraw, called on a state-change notification, updates
\* the renderer parameters and then renders exactly once if the frame is
\* loaded and clears without rendering otherwise; the scene-update callback
\* is renderThree, which renders exactly once without updateRenderer if the
\* frame is loaded and clears without rendering otherwise.
C9_RedrawPolicyAmended ==
  \A v \in ViewerIds :
    /\ (Drawable(v) /\ Count(trace, v, "redraw") > 0)
       => IF FrameLoaded(v) THEN UpdatedThenRendered(trace, v)
                            ELSE ClearedOnly(trace, v)
    /\ (Drawable(v) /\ SceneUpdate(trace) /\ Count(trace, v, "renderThree") > 0)
       => IF FrameLoaded(v)
            THEN /\ Count(trace, v, "render") = 1
                 /\ Count(trace, v, "clear") = 0
                 /\ Count(trace, v, "updateRenderer") = 0
            ELSE ClearedOnly(trace, v)

\* a mouse move on one viewer issued a scene update that made another
\* viewer, whose frame is loaded, render once
C9_Witness ==
  \E v, w \in ViewerIds :
    /\ v # w
    /\ Drawable(v) /\ Drawable(w) /\ FrameLoaded(w)
    /\ Count(trace, v, "onMouseMove") = 1
    /\ SceneUpdate(trace)
    /\ Count(trace, w, "renderThree") = 1
    /\ Count(trace, w, "render") = 1

\* C10: the renderer of a viewer renders the scene only when the current
\* frame of the viewer's sensor is loaded in the latest snapshot; when the
\* frame is unloaded and a renderer exists, every redraw and every
\* scene-update callback clears the renderer instead.
C10_NoRenderOutsideReady ==
  \A v \in ViewerIds :
    /\ Count(trace, v, "render") > 0
       => Configured(state, v) /\ renderer[v] /\ FrameLoaded(v)
    /\ (Configured(state, v) /\ renderer[v] /\ ~FrameLoaded(v))
       => \A i \in Calls(trace, v, "redraw") \cup Calls(trace, v, "renderThree") :
            /\ i < Len(trace)
            /\ trace[i + 1] = <<v, "clear">>

\* a viewer with a renderer whose frame is unloaded was called by a
\* scene update and cleared
C10_Witness ==
  \E v \in ViewerIds :
    /\ Configured(state, v) /\ renderer[v] /\ ~FrameLoaded(v)
    /\ SceneUpdate(trace)
    /\ Count(trace, v, "renderThree") = 1
    /\ Count(trace, v, "clear") = 1

----------------------------------------------------------------------------
(* Properties of the signals of the label handler *)

PointerHandlers == {"onMouseDown", "onMouseUp", "onMouseMove", "onDoubleClick"}

\* the calls the pointer handler h makes on the label handler
DelegateOf(h) ==
  CASE h = "onMouseDown" -> {"labelHandler.onMouseDown"}
    [] h = "onMouseUp" -> {"labelHandler.onMouseUp"}
    [] h = "onMouseMove" -> {"labelHandler.onMouseMove(hit)",
                             "labelHandler.onMouseMove()"}
    [] h = "onDoubleClick" -> {"labelHandler.onDoubleClick"}

\* the last step was pointer handler h of viewer v
PointerHandled(t, v, h) == t # << >> /\ t[1] = <<v, h>>

\* the positions in trace t where viewer v called its label handler for h
DelegateCalls(t, v, h) ==
  { i \in 1 .. Len(t) : t[i][1] = v /\ t[i][2] \in DelegateOf(h) }

\* C11: when a viewer that is not frozen and has a canvas handles a
\* mouse-down, mouse-up, mouse-move or double-click, it calls the
\* corresponding handler of the label handler once and stops the
\* propagation of the DOM event if and only if that handler returned true
\* (consumed).
C11_ConsumedPropagation ==
  \A v \in ViewerIds, h \in PointerHandlers :
    (PointerHandled(trace, v, h) /\ ~checkFreeze /\ canvas[v]) =>
      /\ Cardinality(DelegateCalls(trace, v, h)) = 1
      /\ Count(trace, v, "stopPropagation") <= 1
      /\ Count(trace, v, "stopPropagation") = 1
           <=> Count(trace, v, "return true") = 1

\* a viewer with a canvas that is not frozen handled a double click its
\* label handler consumed, and stopped the propagation
C11_Witness ==
  \E v \in ViewerIds :
    /\ PointerHandled(trace, v, "onDoubleClick") /\ ~checkFreeze /\ canvas[v]
    /\ Count(trace, v, "return true") = 1
    /\ Count(trace, v, "stopPropagation") = 1

\* viewer v passed the event of the last step to its label handler
Delegated(t, v) ==
  Count(t, v, "return true") + Count(t, v, "return false") = 1

\* the scene updates viewer v issued in trace t
Updates(t, v) == Count(t, v, "onDrawableUpdate")

\* C12: an input event (key-down, key-up, mouse-down, mouse-up, mouse-move,
\* double-click) a viewer passes to its label handler issues a scene-update
\* notification (onDrawableUpdate) if and only if the label handler returned
\* true for that event.
C12_ChangedPropagation ==
  \A v \in ViewerIds :
    Delegated(trace, v) =>
      (Updates(trace, v) > 0 <=> Count(trace, v, "return true") = 1)

\* C12 as amended: a key-down or key-up passed to the label handler issues
\* one scene update if the label handler returned true and none otherwise;
\* a mouse-move passed to the label handler issues one scene update whatever
\* the label handler returned; a mouse-down, mouse-up or double-click issues
\* none whatever the label handler returned.
C12_ChangedPropagationAmended ==
  \A v \in ViewerIds :
    /\ v \in KeyDelegates(trace) =>
         Updates(trace, v) = Count(trace, v, "return true")
    /\ DelegateCalls(trace, v, "onMouseMove") # {} => Updates(trace, v) = 1
    /\ \A h \in {"onMouseDown", "onMouseUp", "onDoubleClick"} :
         DelegateCalls(trace, v, h) # {} => Updates(trace, v) = 0

\* the label handler of the active viewer reported a change for a key-down
\* and the viewer issued one scene update, which the other mounted viewer
\* received
C12_Witness ==
  \E v, w \in ViewerIds :
    /\ v # w
    /\ Calls(trace, v, "labelHandler.onKeyDown") # {}
    /\ Count(trace, v, "return true") = 1
    /\ Updates(trace, v) = 1
    /\ Count(trace, w, "renderThree") = 1

----------------------------------------------------------------------------
(* Properties of the hit test *)

\* viewer v ran a hit test and called its label handler in the last step
HitTested(t, v) == DelegateCalls(t, v, "onMouseMove") # {}

\* C13: on a mouse move the hit passed to labelHandler.onMouseMove is an
\* intersection of the ray with an object the registry holds at that call,
\* at the smallest distance among the intersections with those objects, and
\* no hit is passed exactly when the ray meets none of the objects the
\* registry holds at that call.
C13_NearestHit ==
  \A v \in ViewerIds :
    HitTested(trace, v) =>
      LET ray == raycast[v].ray
          passed == raycast[v].passed
          met == raycastableShapes \cap DOMAIN ray
      IN IF met = {}
           THEN /\ passed = << >>
                /\ Count(trace, v, "labelHandler.onMouseMove()") = 1
           ELSE /\ Len(passed) = 1
                /\ passed[1].object \in met
                /\ passed[1].distance = ray[passed[1].object]
                /\ \A o \in met : passed[1].distance <= ray[o]
                /\ Count(trace, v, "labelHandler.onMouseMove(hit)") = 1

\* the registry holds three objects the ray meets at distances 5, 2 and 8,
\* and the label handler got the one at distance 2
C13_Witness ==
  /\ HitTested(trace, 0)
  /\ raycastableShapes = ShapeIds
  /\ raycast[0].ray =
       [o \in ShapeIds |-> IF o = 0 THEN 5 ELSE IF o = 1 THEN 2 ELSE 8]
  /\ raycast[0].passed = << [object |-> 1, distance |-> 2] >>

----------------------------------------------------------------------------
(* Properties of error handling *)

\* the canvas, the renderer or the loaded frame of viewer v is missing
NotReady(v) ==
  \/ ~canvas[v]
  \/ ~renderer[v]
  \/ Configured(state, v) /\ ~FrameLoaded(v)

\* the operations that absorb a missing canvas, renderer or frame
Absorbing ==
  PointerHandlers \cup {"redraw", "renderThree", "updateRenderer",
                        "initializeRefs"}

\* C14: when the canvas, the renderer or the loaded frame of a viewer is
\* missing before and after a step in which the viewer runs redraw,
\* renderThree, updateRenderer, initializeRefs or a mouse handler, the step
\* raises nothing in the viewer and renders nothing with its renderer, and
\* if the step is initializeRefs or a mouse handler of the viewer it leaves
\* the viewer's camera and the label handler's camera as they are and calls
\* no method of the label handler.
C14_MissingAbsorbed ==
  [][ \A v \in ViewerIds :
        ( /\ NotReady(v) /\ NotReady(v)'
          /\ \E i \in 1 .. Len(trace') :
               trace'[i][1] = v /\ trace'[i][2] \in Absorbing )
        => /\ Count(trace', v, "throw") = 0
           /\ Count(trace', v, "render") = 0
           /\ ( trace'[1][1] = v /\
                 trace'[1][2] \in PointerHandlers \cup {"initializeRefs"} )
              => /\ camera'[v] = camera[v]
                 /\ labelHandlerCamera'[v] = labelHandlerCamera[v]
                 /\ Count(trace', v, "return true") = 0
                 /\ Count(trace', v, "return false") = 0 ]_vars

----------------------------------------------------------------------------
(* Properties of the camera and the label handler *)

\* C15: in every reachable state every viewer has a camera, generic or
\* intrinsic, and the camera its label handler holds is that very camera
\* object.
C15_CameraDelegateConsistency ==
  \A v \in ViewerIds :
    /\ camera[v].id \in CameraIds
    /\ camera[v].kind \in {"Generic", "Intrinsic"}
    /\ labelHandlerCamera[v] = camera[v].id

\* after several replacements of its camera the viewer has an intrinsic
\* camera that is neither the one it was constructed with nor the one the
\* registry still holds, and its label handler holds the same camera
C15_Witness ==
  /\ Reconciled(0)
  /\ camera[0].kind = "Intrinsic"
  /\ camera[0].id = 2
  /\ activeCamera.id # 2
  /\ labelHandlerCamera[0] = 2

----------------------------------------------------------------------------
(* Properties of the camera pose *)

\* viewer v, with canvas and renderer, ran updateRenderer in the last step
\* as an image viewer
PosedAsImage(t, v) ==
  /\ Count(t, v, "updateRenderer") > 0
  /\ Drawable(v)
  /\ state.viewerConfigs[v].type = "IMAGE_3D"

\* quaternion q composed on the right with the half turn about X, (1,0,0,0):
\* (x, y, z, w) * (1, 0, 0, 0) = (w, z, -y, -x)
ThenHalfTurnX(q) == << q[4], q[3], 0 - q[2], 0 - q[1] >>

\* C16: after updateRenderer has run for an image viewer whose sensor is a
\* sensor of the task with extrinsics (rotation R, translation t), the
\* camera position is t (the position is zeroed before and set last) and
\* the camera orientation is R composed on the right with the half turn
\* about X, whatever the pose was before; identity R and t = (1,2,3) give
\* position (1,2,3) and the quaternion of the half turn about X.
C16_ExtrinsicsOrder ==
  \A v \in ViewerIds :
    ( /\ PosedAsImage(trace, v)
      /\ state.viewerConfigs[v].sensor \in DOMAIN state.sensors
      /\ state.sensors[state.viewerConfigs[v].sensor].extrinsics.present )
    => LET extrinsics == state.sensors[state.viewerConfigs[v].sensor].extrinsics
       IN /\ camera[v].position = extrinsics.translation
          /\ camera[v].quaternion = ThenHalfTurnX(extrinsics.rotation)
          /\ ( /\ extrinsics.rotation = QuatIdentity
               /\ extrinsics.translation = <<1, 2, 3>> )
             => /\ camera[v].position = <<1, 2, 3>>
                /\ camera[v].quaternion = <<1, 0, 0, 0>>

\* the image viewer was posed from extrinsics with a rotation that does not
\* commute with the half turn about X
C16_Witness ==
  /\ PosedAsImage(trace, 0)
  /\ state.viewerConfigs[0].sensor = 0
  /\ state.sensors[0].extrinsics.rotation = <<0, 1, 0, 0>>
  /\ camera[0].position = <<4, 5, 6>>
  /\ camera[0].quaternion = <<0, 0, -1, 0>>

\* C17: when updateRenderer runs for an image viewer whose sensor is not
\* among the sensors of the task, the step leaves the position and the
\* orientation of the camera as they were and does not set the size of the
\* renderer.
C17_AbsentSensorKeepsPose ==
  [][ \A v \in ViewerIds :
        ( /\ PosedAsImage(trace, v)'
          /\ state'.viewerConfigs[v].sensor \notin DOMAIN state'.sensors )
        => /\ camera'[v].position = camera[v].position
           /\ camera'[v].quaternion = camera[v].quaternion
           /\ Count(trace', v, "setSize") = 0 ]_vars

\* updateRenderer ran for an image viewer whose sensor is not a sensor of
\* the task, and the camera still has the pose it got from the extrinsics
\* of its former sensor
C17_Witness ==
  /\ PosedAsImage(trace, 0)
  /\ state.viewerConfigs[0].sensor \notin DOMAIN state.sensors
  /\ camera[0].position = <<4, 5, 6>>
  /\ camera[0].quaternion = <<0, 0, -1, 0>>
  /\ Count(trace, 0, "render") = 1

----------------------------------------------------------------------------
(* Properties of the layers *)

\* label l of the selected item is associated with the sensor of viewer v
\* and has shapes in the registry
Associated(v, l) ==
  /\ l \in DOMAIN state.labels
  /\ l \in DOMAIN shapeLayers
  /\ state.viewerConfigs[v].sensor \in state.labels[l]

\* C18: after updateState, whatever the set of configured viewer ids, the
\* layer the viewer sets on its camera is the layer it enables on the
\* shapes of the labels associated with its sensor, the camera is on that
\* layer, and the shapes of every such label have the camera's layer
\* enabled.
C18_LayerAgreement ==
  \A v \in ViewerIds :
    Reconciled(v) =>
      /\ Layer(v, DOMAIN state.viewerConfigs) = ShapeLayer(v)
      /\ camera[v].layer = ShapeLayer(v)
      /\ \A l \in LabelIds :
           Associated(v, l) => camera[v].layer \in shapeLayers[l]

----------------------------------------------------------------------------
(* Properties of the Session key map *)

\* the last step was Session.onKeyDown / Session.onKeyUp
SessionHandled(t, op) == t # << >> /\ t[1] = <<NoViewer, op>>

\* a key whose latest event was a key-up is not in the map, and a key-up
\* invoked the callback
KeyUpAlways ==
  /\ \A k \in Keys :
       sessionKeyHistory[k].event = "up" => k \notin sessionKeyDownMap
  /\ SessionHandled(trace, "Session.onKeyUp")
       => Count(trace, NoViewer, "callback") = 1

\* a key-down received while RECONNECTING leaves the map as it is and does
\* not invoke the callback
KeyDownIgnored ==
  ( SessionHandled(trace', "Session.onKeyDown") /\ status = "RECONNECTING" )
  => /\ sessionKeyDownMap' = sessionKeyDownMap
     /\ Count(trace', NoViewer, "callback") = 0

\* C19: Session.keyDownMap contains exactly the keys whose latest key event
\* was a key-down received while the status was not RECONNECTING; a key-down
\* received while RECONNECTING leaves the map unchanged and does not invoke
\* the callback; a key-up removes the key and invokes the callback whatever
\* the status.
C19_SessionKeyMap ==
  /\ [](\A k \in Keys :
          k \in sessionKeyDownMap
            <=> /\ sessionKeyHistory[k].event = "down"
                /\ sessionKeyHistory[k].status # "RECONNECTING")
  /\ [][KeyDownIgnored]_vars
  /\ []KeyUpAlways

\* C19 as amended: Session.keyDownMap contains exactly the keys whose latest
\* key event, not counting the key-downs received while RECONNECTING, was a
\* key-down; a key-down received while RECONNECTING leaves the map
\* unchanged, so that a key recorded before stays in it, and does not
\* invoke the callback; a key-up removes the key and invokes the callback
\* whatever the status.
C19_SessionKeyMapAmended ==
  /\ [](\A k \in Keys :
          /\ k \in sessionKeyDownMap <=> sessionKeyHistory[k].heeded = "down"
          /\ isKeyDown(k) <=> sessionKeyHistory[k].heeded = "down")
  /\ [][KeyDownIgnored]_vars
  /\ []KeyUpAlways

\* a key that was recorded as down got another key-down while RECONNECTING:
\* its latest event is a key-down received while RECONNECTING, the callback
\* was not invoked and the key is still in the map
C19_Witness ==
  /\ SessionHandled(trace, "Session.onKeyDown")
  /\ Count(trace, NoViewer, "callback") = 0
  /\ sessionKeyHistory["a"].event = "down"
  /\ sessionKeyHistory["a"].status = "RECONNECTING"
  /\ "a" \in sessionKeyDownMap

----------------------------------------------------------------------------
(* Properties of an unconfigured viewer *)

\* C20: when the store listener of a viewer runs on a snapshot whose
\* viewerConfigs has no entry for the viewer, updateState and redraw raise
\* nothing, and the viewer's camera and the label handler's camera are the
\* objects they were before.
C20_UnconfiguredTolerated ==
  [][ \A v \in ViewerIds :
        ( Count(trace', v, "updateState") > 0 /\ ~Configured(state', v) )
        => /\ Count(trace', v, "throw") = 0
           /\ camera'[v].id = camera[v].id
           /\ camera'[v].kind = camera[v].kind
           /\ labelHandlerCamera'[v] = labelHandlerCamera[v] ]_vars

====
